---- MODULE Spec2Model ----
(***************************************************************************)
(* Model of packages/vm/src/modules/in_memory_cache.rs: InMemoryCache, a   *)
(* size-limited module cache that wraps clru::CLruCache with the           *)
(* SizeScale weight scale.                                                 *)
(*                                                                         *)
(* InMemoryCache delegates to the clru crate (new -> with_config,          *)
(* store -> put_with_weight, load -> get, len -> len, size -> weight).     *)
(* The container operations are modelled as clru 0.6 executes them: the    *)
(* container holds a recency list (storage, most recently used first), a   *)
(* key index (lookup) and a running weight, and considers itself full      *)
(* when len + weight reaches its capacity.                                 *)
(***************************************************************************)
EXTENDS Integers, Sequences, FiniteSets, TLC

\* ------------------------------------------------------------- bounds
MaxKey == 3
MaxBudget == 2
MaxHist == 3

\* Size::kibi(250)
MINIMUM_MODULE_SIZE == 256000

\* Size::mebi(2), the budget of tests::len_works and tests::size_works,
\* and the declared sizes those tests store.
TestBudget == 2097152
TestSizes == {800000, 900000, 1500000}

Keys == 1..MaxKey
Modules == {"m1", "m2"}
Budgets == (0..MaxBudget) \cup {TestBudget}
\* Declared sizes tried against a cache of budget b: everything up to one
\* more than the budget, or the tests' sizes for the tests' budget.
SizesFor(b) == IF b = TestBudget THEN TestSizes \cup {TestBudget} ELSE 0..(b + 1)

VARIABLES
    budget,     \* the Size given to InMemoryCache::new
    modules,    \* InMemoryCache.modules: <<>> (None) or <<cache>> (Some)
    last,       \* the last call and what it returned
    before,     \* the value of modules when the last call was made
    touch,      \* live keys, latest hit or successful store first, with its kind
    stored,     \* per key, the entry of its latest successful store not evicted since
    hist        \* the calls made since construction (recorded under SpecHist)

vars == <<budget, modules, last, before, touch, stored, hist>>

\* ------------------------------------------------------ Option values
None == <<>>
Some(x) == <<x>>
IsSome(o) == Len(o) = 1
Unwrap(o) == o[1]

\* ------------------------------------------------------- sequence helpers
RECURSIVE SumSizes(_)
SumSizes(s) == IF s = <<>> THEN 0 ELSE s[1].value.size + SumSizes(Tail(s))

KeysOf(s) == {s[i].key : i \in 1..Len(s)}
IndexOf(s, k) == CHOOSE i \in 1..Len(s) : s[i].key = k
RemoveAt(s, i) == SubSeq(s, 1, i - 1) \o SubSeq(s, i + 1, Len(s))
SeqToSet(s) == {s[i] : i \in 1..Len(s)}
RECURSIVE Without(_, _)
Without(s, ks) ==
    IF s = <<>> THEN <<>>
    ELSE IF s[1].key \in ks THEN Without(Tail(s), ks)
         ELSE <<s[1]>> \o Without(Tail(s), ks)

\* ------------------------------------------------------------ SizeScale
\* Mutant: the scale ignores the declared size.
weight_zero(key, value) == 0

weight(key, value) == value.size

\* ------------------------------------------------- CLruCache (clru crate)
with_config(capacity, memory) ==
    [storage |-> <<>>, lookup |-> {}, weight |-> 0,
     capacity |-> capacity, memory |-> memory]

\* Mutant: the eviction loop runs only while len + weight + new weight
\* exceeds the capacity.
RECURSIVE evict_loop_gt(_, _, _, _, _)
evict_loop_gt(storage, total, w, capacity, keys) ==
    IF Len(storage) + total + w > capacity
    THEN IF storage = <<>>
         THEN [storage |-> storage, weight |-> total, keys |-> keys, panic |-> TRUE]
         ELSE LET node == storage[Len(storage)]
              IN evict_loop_gt(SubSeq(storage, 1, Len(storage) - 1),
                               total - weight(node.key, node.value),
                               w, capacity, Append(keys, node.key))
    ELSE [storage |-> storage, weight |-> total, keys |-> keys, panic |-> FALSE]

\* The eviction loop of put_with_weight:
\*   while storage.len() + self.weight + weight >= storage.capacity() {
\*       let node = storage.pop_back().unwrap(); self.weight -= weight(node); }
\* pop_back().unwrap() on an empty list aborts: panic.
RECURSIVE evict_loop(_, _, _, _, _)
evict_loop(storage, total, w, capacity, keys) ==
    IF Len(storage) + total + w >= capacity
    THEN IF storage = <<>>
         THEN [storage |-> storage, weight |-> total, keys |-> keys, panic |-> TRUE]
         ELSE LET node == storage[Len(storage)]
              IN evict_loop(SubSeq(storage, 1, Len(storage) - 1),
                            total - weight(node.key, node.value),
                            w, capacity, Append(keys, node.key))
    ELSE [storage |-> storage, weight |-> total, keys |-> keys, panic |-> FALSE]

\* Mutant: the old entry is taken out and the eviction loop runs before the
\* capacity check, so a rejected store has already dropped entries.
put_with_weight_evict_first(c, key, value) ==
    LET w == weight(key, value)
        occupied == key \in c.lookup
        st0 == IF occupied THEN RemoveAt(c.storage, IndexOf(c.storage, key))
               ELSE c.storage
        w0 == IF occupied
              THEN LET old == c.storage[IndexOf(c.storage, key)]
                   IN c.weight - weight(old.key, old.value)
              ELSE c.weight
    IN IF w >= c.capacity
       THEN [cache |-> [c EXCEPT !.storage = <<>>, !.lookup = {}, !.weight = 0],
             ok |-> FALSE,
             evicted |-> [i \in 1..Len(st0) |-> st0[Len(st0) + 1 - i].key],
             panic |-> FALSE]
       ELSE LET ev == evict_loop(st0, w0, w, c.capacity, <<>>)
            IN [cache |-> [c EXCEPT
                      !.storage = <<[key |-> key, value |-> value]>> \o ev.storage,
                      !.lookup = (c.lookup \cup {key}) \ SeqToSet(ev.keys),
                      !.weight = ev.weight + w],
                ok |-> TRUE, evicted |-> ev.keys, panic |-> ev.panic]

\* Mutant: replacing a key does not take the old entry's weight off the
\* running total.
put_with_weight_double_count(c, key, value) ==
    LET w == weight(key, value) IN
    IF w >= c.capacity
    THEN [cache |-> c, ok |-> FALSE, evicted |-> <<>>, panic |-> FALSE]
    ELSE LET occupied == key \in c.lookup
             st0 == IF occupied THEN RemoveAt(c.storage, IndexOf(c.storage, key))
                    ELSE c.storage
             ev == evict_loop(st0, c.weight, w, c.capacity, <<>>)
         IN [cache |-> [c EXCEPT
                   !.storage = <<[key |-> key, value |-> value]>> \o ev.storage,
                   !.lookup = (c.lookup \cup {key}) \ SeqToSet(ev.keys),
                   !.weight = ev.weight + w],
             ok |-> ~ev.panic, evicted |-> ev.keys, panic |-> ev.panic]

\* Mutant: a replaced key keeps its place in the recency list.
put_with_weight_in_place(c, key, value) ==
    LET w == weight(key, value) IN
    IF w >= c.capacity
    THEN [cache |-> c, ok |-> FALSE, evicted |-> <<>>, panic |-> FALSE]
    ELSE IF key \in c.lookup
    THEN LET i == IndexOf(c.storage, key)
             old == c.storage[i]
             ev == evict_loop(SubSeq(c.storage, i + 1, Len(c.storage)),
                              c.weight - weight(old.key, old.value), w,
                              c.capacity - i, <<>>)
         IN [cache |-> [c EXCEPT
                   !.storage = SubSeq(c.storage, 1, i - 1)
                                  \o <<[key |-> key, value |-> value]>> \o ev.storage,
                   !.lookup = c.lookup \ SeqToSet(ev.keys),
                   !.weight = ev.weight + w],
             ok |-> TRUE, evicted |-> ev.keys, panic |-> FALSE]
    ELSE LET ev == evict_loop(c.storage, c.weight, w, c.capacity, <<>>)
         IN [cache |-> [c EXCEPT
                   !.storage = <<[key |-> key, value |-> value]>> \o ev.storage,
                   !.lookup = (c.lookup \cup {key}) \ SeqToSet(ev.keys),
                   !.weight = ev.weight + w],
             ok |-> ~ev.panic, evicted |-> ev.keys, panic |-> ev.panic]

\* Mutant: a store of a key that is held keeps the value already held
\* (insert-if-absent) and only moves the key to the front.
put_with_weight_keep_old(c, key, value) ==
    LET w == weight(key, value) IN
    IF w >= c.capacity
    THEN [cache |-> c, ok |-> FALSE, evicted |-> <<>>, panic |-> FALSE]
    ELSE IF key \in c.lookup
    THEN LET i == IndexOf(c.storage, key)
         IN [cache |-> [c EXCEPT
                   !.storage = <<c.storage[i]>> \o RemoveAt(c.storage, i)],
             ok |-> TRUE, evicted |-> <<>>, panic |-> FALSE]
    ELSE LET ev == evict_loop(c.storage, c.weight, w, c.capacity, <<>>)
         IN [cache |-> [c EXCEPT
                   !.storage = <<[key |-> key, value |-> value]>> \o ev.storage,
                   !.lookup = (c.lookup \cup {key}) \ SeqToSet(ev.keys),
                   !.weight = ev.weight + w],
             ok |-> ~ev.panic, evicted |-> ev.keys, panic |-> ev.panic]

\* Mutant: the declared size is not checked against the capacity before the
\* eviction loop.
put_with_weight_unchecked(c, key, value) ==
    LET w == weight(key, value)
        occupied == key \in c.lookup
        st0 == IF occupied THEN RemoveAt(c.storage, IndexOf(c.storage, key))
               ELSE c.storage
        w0 == IF occupied
              THEN LET old == c.storage[IndexOf(c.storage, key)]
                   IN c.weight - weight(old.key, old.value)
              ELSE c.weight
        ev == evict_loop(st0, w0, w, c.capacity, <<>>)
    IN IF ev.panic
       THEN [cache |-> c, ok |-> FALSE, evicted |-> ev.keys, panic |-> TRUE]
       ELSE [cache |-> [c EXCEPT
                  !.storage = <<[key |-> key, value |-> value]>> \o ev.storage,
                  !.lookup = (c.lookup \cup {key}) \ SeqToSet(ev.keys),
                  !.weight = ev.weight + w],
             ok |-> TRUE, evicted |-> ev.keys, panic |-> FALSE]

\* Mutant: a rejected store of a key that is held still moves that key to
\* the front of the recency list.
put_with_weight_touch_on_err(c, key, value) ==
    LET w == weight(key, value) IN
    IF w >= c.capacity
    THEN [cache |-> IF key \in c.lookup
                    THEN LET i == IndexOf(c.storage, key)
                         IN [c EXCEPT !.storage =
                                <<c.storage[i]>> \o RemoveAt(c.storage, i)]
                    ELSE c,
          ok |-> FALSE, evicted |-> <<>>, panic |-> FALSE]
    ELSE LET occupied == key \in c.lookup
             st0 == IF occupied THEN RemoveAt(c.storage, IndexOf(c.storage, key))
                    ELSE c.storage
             w0 == IF occupied
                   THEN LET old == c.storage[IndexOf(c.storage, key)]
                        IN c.weight - weight(old.key, old.value)
                   ELSE c.weight
             ev == evict_loop(st0, w0, w, c.capacity, <<>>)
         IN [cache |-> [c EXCEPT
                   !.storage = <<[key |-> key, value |-> value]>> \o ev.storage,
                   !.lookup = (c.lookup \cup {key}) \ SeqToSet(ev.keys),
                   !.weight = ev.weight + w],
             ok |-> ~ev.panic, evicted |-> ev.keys, panic |-> ev.panic]

\* Result: the cache afterwards, ok (Ok / Err((key, value))), the evicted
\* keys in eviction order, and whether the call aborted.
put_with_weight(c, key, value) ==
    LET w == weight(key, value) IN
    IF w >= c.capacity
    THEN [cache |-> c, ok |-> FALSE, evicted |-> <<>>, panic |-> FALSE]
    ELSE LET occupied == key \in c.lookup
             st0 == IF occupied THEN RemoveAt(c.storage, IndexOf(c.storage, key))
                    ELSE c.storage
             w0 == IF occupied
                   THEN LET old == c.storage[IndexOf(c.storage, key)]
                        IN c.weight - weight(old.key, old.value)
                   ELSE c.weight
             ev == evict_loop(st0, w0, w, c.capacity, <<>>)
         IN IF ev.panic
            THEN [cache |-> c, ok |-> FALSE, evicted |-> ev.keys, panic |-> TRUE]
            ELSE [cache |-> [c EXCEPT
                       !.storage = <<[key |-> key, value |-> value]>> \o ev.storage,
                       !.lookup = (c.lookup \cup {key}) \ SeqToSet(ev.keys),
                       !.weight = ev.weight + w],
                  ok |-> TRUE, evicted |-> ev.keys, panic |-> FALSE]

\* Result: the cache afterwards (the hit moved to the front) and the value.
get(c, key) ==
    IF key \in c.lookup
    THEN LET i == IndexOf(c.storage, key)
         IN [cache |-> [c EXCEPT !.storage = <<c.storage[i]>> \o RemoveAt(c.storage, i)],
             found |-> Some(c.storage[i].value)]
    ELSE [cache |-> c, found |-> None]

clru_len(c) == Len(c.storage)
clru_weight(c) == c.weight

\* ---------------------------------------------------------- InMemoryCache
\* Mutant: the number of pre-allocated entries is given as the capacity.
new_capacity_from_hint(size) ==
    LET preallocated_entries == size \div MINIMUM_MODULE_SIZE
    IN IF size > 0
       THEN Some(with_config(preallocated_entries, preallocated_entries))
       ELSE None

new(size) ==
    LET preallocated_entries == size \div MINIMUM_MODULE_SIZE
    IN IF size > 0 THEN Some(with_config(size, preallocated_entries)) ELSE None

\* Mutant: a store on the disabled cache is reported as a cache error.
store_disabled_err(mods, checksum, entry, size) ==
    IF IsSome(mods)
    THEN LET r == put_with_weight(Unwrap(mods), checksum,
                                  [module |-> entry, size |-> size])
         IN [modules |-> Some(r.cache),
             res |-> IF r.panic THEN "Panic" ELSE IF r.ok THEN "Ok" ELSE "CacheErr",
             evicted |-> r.evicted]
    ELSE [modules |-> mods, res |-> "CacheErr", evicted |-> <<>>]

\* Result: modules afterwards and the VmResult ("Ok" or "CacheErr").
store(mods, checksum, entry, size) ==
    IF IsSome(mods)
    THEN LET r == put_with_weight(Unwrap(mods), checksum,
                                  [module |-> entry, size |-> size])
         IN [modules |-> Some(r.cache),
             res |-> IF r.panic THEN "Panic" ELSE IF r.ok THEN "Ok" ELSE "CacheErr",
             evicted |-> r.evicted]
    ELSE [modules |-> mods, res |-> "Ok", evicted |-> <<>>]

\* Mutant: a miss is reported as a cache error.
load_miss_err(mods, checksum) ==
    IF IsSome(mods)
    THEN LET r == get(Unwrap(mods), checksum)
         IN [modules |-> Some(r.cache),
             res |-> IF IsSome(r.found) THEN "Ok" ELSE "CacheErr",
             found |-> r.found]
    ELSE [modules |-> mods, res |-> "Ok", found |-> None]

\* Mutant: the lookup reads the entry without moving it in the recency
\* order (CLruCache::peek in place of CLruCache::get).
load_peek(mods, checksum) ==
    IF IsSome(mods)
    THEN [modules |-> mods, res |-> "Ok",
          found |-> get(Unwrap(mods), checksum).found]
    ELSE [modules |-> mods, res |-> "Ok", found |-> None]

\* Mutant: the lookup takes the entry out of the container
\* (CLruCache::pop in place of CLruCache::get).
load_pop(mods, checksum) ==
    IF IsSome(mods)
    THEN LET c == Unwrap(mods)
             r == get(c, checksum)
         IN IF IsSome(r.found)
            THEN [modules |-> Some([c EXCEPT
                        !.storage = Without(c.storage, {checksum}),
                        !.lookup = c.lookup \ {checksum},
                        !.weight = c.weight - weight(checksum, Unwrap(r.found))]),
                  res |-> "Ok", found |-> r.found]
            ELSE [modules |-> mods, res |-> "Ok", found |-> None]
    ELSE [modules |-> mods, res |-> "Ok", found |-> None]

\* Result: modules afterwards, the VmResult and the Option<CachedModule>.
load(mods, checksum) ==
    IF IsSome(mods)
    THEN LET r == get(Unwrap(mods), checksum)
         IN [modules |-> Some(r.cache), res |-> "Ok", found |-> r.found]
    ELSE [modules |-> mods, res |-> "Ok", found |-> None]

len(mods) == IF IsSome(mods) THEN clru_len(Unwrap(mods)) ELSE 0

\* Mutant: size() reports the number of entries.
size_returns_len(mods) == IF IsSome(mods) THEN clru_len(Unwrap(mods)) ELSE 0

size(mods) == IF IsSome(mods) THEN clru_weight(Unwrap(mods)) ELSE 0

\* ------------------------------------------------------------------ ghosts
Call(op, k, m, s, res, found, evicted, n) ==
    [op |-> op, key |-> k, module |-> m, size |-> s, res |-> res,
     found |-> found, evicted |-> evicted, n |-> n]

LiveKeys(mods) == IF IsSome(mods) THEN KeysOf(Unwrap(mods).storage) ELSE {}
Storage(mods) == IF IsSome(mods) THEN Unwrap(mods).storage ELSE <<>>

\* The touch order after key k was hit or stored (kind), kept to live keys.
Touched(t, k, kind, mods) ==
    LET t1 == <<[key |-> k, kind |-> kind]>> \o Without(t, {k})
    IN Without(t1, Keys \ LiveKeys(mods))

\* The entries stored and not evicted since, after a store of (k, m, s)
\* that returned ok and reported the keys evicted.
StoredAfter(st, k, m, s, ok, evicted) ==
    LET kept == {e \in st : e.key \notin SeqToSet(evicted)}
    IN IF ok
       THEN {e \in kept : e.key # k} \cup {[key |-> k, module |-> m, size |-> s]}
       ELSE kept

\* ------------------------------------------------------------------ actions
Init ==
    /\ budget \in Budgets
    /\ modules = new(budget)
    /\ last = Call("new", 0, "none", budget, "Ok", None, <<>>, 0)
    /\ before = None
    /\ touch = <<>>
    /\ stored = {}
    /\ hist = <<>>

StoreCall(k, m, s) ==
    \E r \in {store(modules, k, m, s)} :
    /\ modules' = r.modules
    /\ last' = Call("store", k, m, s, r.res, None, r.evicted, 0)
    /\ before' = modules
    /\ touch' = IF r.res = "Ok" /\ IsSome(modules)
                THEN Touched(touch, k, "store", r.modules)
                ELSE Without(touch, Keys \ LiveKeys(r.modules))
    /\ stored' = StoredAfter(stored, k, m, s, r.res = "Ok" /\ IsSome(modules), r.evicted)
    /\ UNCHANGED budget

LoadCall(k) ==
    \E r \in {load(modules, k)} :
    /\ modules' = r.modules
    /\ last' = Call("load", k, "none", 0, r.res, r.found, <<>>, 0)
    /\ before' = modules
    /\ touch' = IF IsSome(r.found) THEN Touched(touch, k, "load", r.modules) ELSE touch
    /\ UNCHANGED <<budget, stored>>

LenCall ==
    /\ last' = Call("len", 0, "none", 0, "Ok", None, <<>>, len(modules))
    /\ before' = modules
    /\ UNCHANGED <<budget, modules, touch, stored>>

SizeCall ==
    /\ last' = Call("size", 0, "none", 0, "Ok", None, <<>>, size(modules))
    /\ before' = modules
    /\ UNCHANGED <<budget, modules, touch, stored>>

Store == \E k \in Keys, m \in Modules, s \in SizesFor(budget) :
            StoreCall(k, m, s) /\ UNCHANGED hist
Load == \E k \in Keys : LoadCall(k) /\ UNCHANGED hist
GetLen == LenCall /\ UNCHANGED hist
GetSize == SizeCall /\ UNCHANGED hist

Next == Store \/ Load \/ GetLen \/ GetSize

Spec == Init /\ [][Next]_vars

\* The same calls, with the first MaxHist calls after construction recorded.
Entry(c) == [op |-> c.op, key |-> c.key, module |-> c.module, size |-> c.size,
             res |-> c.res, found |-> c.found, evicted |-> c.evicted]

HStore == /\ Len(hist) < MaxHist
          /\ \E k \in Keys, m \in Modules, s \in SizesFor(budget) : StoreCall(k, m, s)
          /\ hist' = Append(hist, [call |-> Entry(last'), len |-> len(modules'),
                                   size |-> size(modules')])
HLoad == /\ Len(hist) < MaxHist
         /\ \E k \in Keys : LoadCall(k)
         /\ hist' = Append(hist, [call |-> Entry(last'), len |-> len(modules'),
                                  size |-> size(modules')])

NextHist == HStore \/ HLoad

SpecHist == Init /\ [][NextHist]_vars

\* ================================================================ claims
Enabled == budget > 0
StoredOk == last.op = "store" /\ last.res = "Ok"
CachedModule(m, s) == [module |-> m, size |-> s]

\* ---------------------------------------------------------------- C1
\* C1 (budget invariant): for a cache created with budget B > 0, after
\* every call size() and the sum of the declared sizes of the live entries
\* are at most B.
C1_BudgetInvariant ==
    Enabled => /\ size(modules) <= budget
               /\ SumSizes(Storage(modules)) <= budget

\* A store that had to evict to stay within the budget.
C1_Witness ==
    /\ Enabled /\ StoredOk
    /\ last.evicted # <<>>
    /\ size(before) + last.size > budget
    /\ size(modules) > 0

\* ---------------------------------------------------------------- C2
\* C2 (disabled cache): with budget 0 every store returns Ok, every load
\* returns Ok(None), also for the key that was just stored, and len() and
\* size() are 0.
C2_DisabledNoOp ==
    budget = 0 =>
        /\ last.res = "Ok"
        /\ last.found = None
        /\ len(modules) = 0 /\ size(modules) = 0
        /\ last.op \in {"len", "size"} => last.n = 0
        /\ \A k \in Keys : load(modules, k).res = "Ok" /\ load(modules, k).found = None
        /\ \A k \in Keys, m \in Modules, s \in SizesFor(budget) :
              store(modules, k, m, s).res = "Ok"

\* A store on the disabled cache has returned.
C2_Witness == budget = 0 /\ last.op = "store" /\ last.size > 0

\* ---------------------------------------------------------------- C3
\* C3 (LRU eviction scenario): on an empty enabled cache, stores of three
\* distinct keys with sizes w1, w2, w3, w1+w2 <= B < w1+w2+w3 and w3 <= B:
\* after two stores both keys are live and size() = w1+w2; the third store
\* succeeds and evicts key 1 only if w2+w3 <= B, otherwise keys 1 and 2;
\* afterwards key 3 is live and size() is the sum of the survivors' sizes.
C3_Scenario ==
    /\ Enabled
    /\ Len(hist) = 3
    /\ \A i \in 1..3 : hist[i].call.op = "store"
    /\ Cardinality({hist[i].call.key : i \in 1..3}) = 3
    /\ hist[1].call.size + hist[2].call.size <= budget
    /\ budget < hist[1].call.size + hist[2].call.size + hist[3].call.size
    /\ hist[3].call.size <= budget

C3_LruScenario ==
    C3_Scenario =>
        LET w1 == hist[1].call.size
            w2 == hist[2].call.size
            w3 == hist[3].call.size
        IN /\ hist[1].call.res = "Ok" /\ hist[2].call.res = "Ok"
           /\ hist[2].len = 2 /\ hist[2].size = w1 + w2
           /\ hist[3].call.res = "Ok"
           /\ hist[3].call.evicted =
                 IF w2 + w3 <= budget THEN <<hist[1].call.key>>
                 ELSE <<hist[1].call.key, hist[2].call.key>>
           /\ hist[3].call.key \in LiveKeys(modules)
           /\ hist[3].size = IF w2 + w3 <= budget THEN w2 + w3 ELSE w3
           /\ hist[3].len = IF w2 + w3 <= budget THEN 2 ELSE 1

\* ---------------------------------------------------------------- C4
\* C4 (only failure path): on an enabled cache with budget B a store of
\* declared size s returns an error if and only if s > B, and the error is
\* the cache error.
C4_OnlyFailurePath ==
    (Enabled /\ last.op = "store") =>
        /\ last.res \in {"Ok", "CacheErr"}
        /\ (last.res = "CacheErr") <=> (last.size > budget)

\* ---------------------------------------------------------------- C5
\* C5 (single-entry overflow): after a store(k, m, s) with s > B has
\* failed, load(k) returns Ok(None), also when k was live before the store.
C5_FailedStore ==
    /\ Enabled /\ last.op = "store" /\ last.res = "CacheErr"
    /\ last.size > budget

C6_Replaced == Enabled /\ StoredOk /\ last.key \in LiveKeys(before)

C6_ReplacementAccounting ==
    C6_Replaced =>
        LET survivors == Without(Storage(before),
                                 {last.key} \cup SeqToSet(last.evicted))
        IN /\ size(modules) = SumSizes(survivors) + last.size
           /\ Storage(modules) =
                 <<[key |-> last.key,
                    value |-> CachedModule(last.module, last.size)]>> \o survivors
           /\ Cardinality({i \in 1..Len(Storage(modules)) :
                              Storage(modules)[i].key = last.key}) = 1
           /\ len(modules) <= len(before)

\* A key replaced with a different size while another entry survives.
C6_Witness ==
    /\ C6_Replaced
    /\ len(modules) >= 2
    /\ Storage(before)[IndexOf(Storage(before), last.key)].value.size # last.size
    /\ last.size > 0

\* ---------------------------------------------------------------- C7
\* C7 (round-trip identity): on an empty enabled cache, for every s <= B,
\* store(k, m, s) followed immediately by load(k) returns Ok(Some(entry))
\* with module m and size s, and len() = 1 and size() = s.
C7_RoundTrip ==
    (/\ Enabled /\ Len(hist) = 2
     /\ hist[1].call.op = "store" /\ hist[2].call.op = "load"
     /\ hist[1].call.key = hist[2].call.key
     /\ hist[1].call.size <= budget) =>
        /\ hist[1].call.res = "Ok" /\ hist[2].call.res = "Ok"
        /\ hist[2].call.found =
              Some(CachedModule(hist[1].call.module, hist[1].call.size))
        /\ hist[2].len = 1 /\ hist[2].size = hist[1].call.size

\* ---------------------------------------------------------------- C8
\* C8 (load never fails): load returns Ok in every state, disabled or
\* enabled, and Ok(None) for a key that was never stored (such a key has no
\* successful store or hit, so it is not in touch).
C8_LoadNeverFails ==
    /\ last.op = "load" => last.res = "Ok"
    /\ \A k \in Keys :
          /\ load(modules, k).res = "Ok"
          /\ k \notin KeysOf(touch) => load(modules, k).found = None

\* A load of a key that is not held, on an enabled cache that holds others.
C8_Witness ==
    /\ Enabled /\ last.op = "load" /\ last.found = None
    /\ len(modules) >= 1

\* ---------------------------------------------------------------- C9
\* C9 (accounting consistency): on an enabled cache size() is the sum of
\* the declared sizes of the live entries, len() is the number of live
\* keys, and the key index and the recency order hold the same keys, each
\* once.
C9_AccountingConsistency ==
    Enabled =>
        LET c == Unwrap(modules)
        IN /\ size(modules) = SumSizes(c.storage)
           /\ len(modules) = Cardinality(c.lookup)
           /\ KeysOf(c.storage) = c.lookup
           /\ Cardinality(KeysOf(c.storage)) = Len(c.storage)

\* A store has evicted and the cache holds several entries.
C9_Witness ==
    /\ Enabled /\ StoredOk /\ last.evicted # <<>>
    /\ len(modules) >= 2 /\ size(modules) > 0

\* ---------------------------------------------------------------- C10
\* C10 (load promotes recency): a load(k) that hits makes k the most
\* recently used key: when a later store evicts k, whose latest touch was
\* that load, every live key touched less recently than k (other than the
\* key being stored) has been evicted by that store before k.
PosIn(s, k) == CHOOSE i \in 1..Len(s) : s[i] = k

C10_LoadPromotesRecency ==
    [][(last'.op = "store" /\ last'.res = "Ok") =>
          \A i \in 1..Len(touch) :
              (touch[i].kind = "load" /\ touch[i].key \in SeqToSet(last'.evicted)) =>
                  \A j \in (i + 1)..Len(touch) :
                      touch[j].key # last'.key =>
                          /\ touch[j].key \in SeqToSet(last'.evicted)
                          /\ PosIn(last'.evicted, touch[j].key)
                                < PosIn(last'.evicted, touch[i].key)]_vars

\* A store evicted exactly one of two live keys and kept the one whose
\* latest touch was a load (store A, store B, load A, store C).
C10_Witness ==
    /\ Enabled /\ StoredOk
    /\ Len(last.evicted) = 1
    /\ len(before) = 2 /\ len(modules) = 2
    /\ Len(touch) = 2 /\ touch[2].kind = "load"
    /\ touch[2].key \in LiveKeys(modules)
    /\ last.key \notin LiveKeys(before)

\* ---------------------------------------------------------------- C11
\* C11 (store promotes recency): every successful store(k, ..), of a new
\* key or of a live one, leaves the stored entry live as the most recently
\* used one; and when a later store evicts a key whose latest touch was a
\* store, every live key touched less recently (other than the key being
\* stored) has been evicted by that store before it.
C11_StorePromotesRecency ==
    [][(Enabled /\ last'.op = "store" /\ last'.res = "Ok") =>
          /\ last'.key \in LiveKeys(modules')
          /\ Storage(modules')[1] =
                [key |-> last'.key, value |-> CachedModule(last'.module, last'.size)]
          /\ last'.key \notin SeqToSet(last'.evicted)
          /\ \A i \in 1..Len(touch) :
                (touch[i].kind = "store" /\ touch[i].key \in SeqToSet(last'.evicted)) =>
                    \A j \in (i + 1)..Len(touch) :
                        touch[j].key # last'.key =>
                            /\ touch[j].key \in SeqToSet(last'.evicted)
                            /\ PosIn(last'.evicted, touch[j].key)
                                  < PosIn(last'.evicted, touch[i].key)]_vars

\* A store replaced the least recently used of several live keys, which is
\* now the most recently used while the others are still held.
C11_Witness ==
    /\ Enabled /\ StoredOk
    /\ len(before) >= 2 /\ len(modules) = len(before)
    /\ Storage(before)[len(before)].key = last.key
    /\ Storage(modules)[1].key = last.key
    /\ touch[1] = [key |-> last.key, kind |-> "store"]

\* ---------------------------------------------------------------- C12
\* C12 (minimal LRU eviction): a successful store(k, m, s) evicts exactly
\* the j least recently used live keys other than k, for the smallest j
\* that brings the other live sizes plus s to at most B; nothing is evicted
\* when the other live sizes plus s is already <= B.
LruKeys(others, j) == [i \in 1..j |-> others[Len(others) + 1 - i].key]

MinimalEviction(others, s) ==
    LET fits(j) == SumSizes(SubSeq(others, 1, Len(others) - j)) + s <= budget
        j == CHOOSE n \in 0..Len(others) :
                fits(n) /\ \A n2 \in 0..(n - 1) : ~fits(n2)
    IN LruKeys(others, j)

C12_MinimalLruEviction ==
    (Enabled /\ StoredOk) =>
        last.evicted = MinimalEviction(Without(Storage(before), {last.key}), last.size)

\* ---------------------------------------------------------------- C13
\* C13 (no rollback on failed store): after a failed store the cache holds
\* neither the new entry nor the entries evicted in the attempt; a store
\* with s > budget evicts every previously live entry before it fails,
\* leaving len() = 0 and size() = 0.
FailedStore == Enabled /\ last.op = "store" /\ last.res = "CacheErr"

NewEntryHeld ==
    \E i \in 1..Len(Storage(modules)) :
        Storage(modules)[i] =
            [key |-> last.key, value |-> CachedModule(last.module, last.size)]

ReadCall == last.op \in {"load", "len", "size"}

C14_ReadFrame ==
    ReadCall =>
        /\ len(modules) = len(before) /\ size(modules) = size(before)
        /\ LiveKeys(modules) = LiveKeys(before)
        /\ SeqToSet(Storage(modules)) = SeqToSet(Storage(before))
        /\ (last.op \in {"len", "size"} \/ last.found = None) => modules = before
        /\ (last.op = "load" /\ IsSome(last.found)) =>
              Without(Storage(modules), {last.key}) = Without(Storage(before), {last.key})

\* A load hit a key that was not the most recently used of several.
C14_Witness ==
    /\ Enabled /\ last.op = "load" /\ IsSome(last.found)
    /\ len(before) >= 2
    /\ Storage(before)[1].key # last.key
    /\ Storage(modules) # Storage(before)

\* ---------------------------------------------------------------- C15
\* C15 (no stale or phantom hits): on an enabled cache load(k) returns
\* Some(entry) only if a store(k, ..) succeeded earlier and k has not been
\* evicted since, and entry carries the module and the size of the most
\* recent successful store(k, ..); an entry stops being loadable only as
\* the effect of a store call.
Loadable(mods, k) == IsSome(load(mods, k).found)

HitsAreStored ==
    Enabled =>
        \A k \in Keys :
            Loadable(modules, k) =>
                LET e == Unwrap(load(modules, k).found)
                IN [key |-> k, module |-> e.module, size |-> e.size] \in stored

C15_NoStaleOrPhantomHits ==
    /\ HitsAreStored
    /\ \A k \in Keys :
          (Loadable(before, k) /\ ~Loadable(modules, k)) =>
              (last.op = "store" /\ last.key # k /\ k \in SeqToSet(last.evicted))

\* A load returned an entry of a cache that holds several stored entries.
C15_Witness ==
    /\ Enabled /\ last.op = "load" /\ IsSome(last.found)
    /\ [key |-> last.key, module |-> Unwrap(last.found).module,
         size |-> Unwrap(last.found).size] \in stored
    /\ Cardinality(stored) >= 2

\* ---------------------------------------------------------------- C16
\* C16 (pre-sizing is advisory): the pre-allocation hint
\* budget / MINIMUM_MODULE_SIZE has no effect on any result of store, load,
\* len or size: the capacity is the budget whatever the hint, the last call
\* returns the same when made on a cache with another hint, a store of a size that
\* the budget admits succeeds also when the hint is 0 or the size is below
\* MINIMUM_MODULE_SIZE, and len() may exceed the hint.
Hint == budget \div MINIMUM_MODULE_SIZE
WithHint(mods, h) == Some([Unwrap(mods) EXCEPT !.memory = h])
Contents(mods) ==
    LET c == Unwrap(mods)
    IN [storage |-> c.storage, lookup |-> c.lookup, weight |-> c.weight,
        capacity |-> c.capacity]

C17_NoAbort ==
    /\ (budget = 0) <=> (modules = None)
    /\ Enabled => Unwrap(modules).capacity > 0
    /\ last.res \in {"Ok", "CacheErr"}
    /\ last.op = "store" =>
          /\ Len(last.evicted) <= len(before)
          /\ SeqToSet(last.evicted) \subseteq LiveKeys(before)

\* A store evicted every entry that was live and returned Ok.
C17_Witness ==
    /\ Enabled /\ StoredOk
    /\ len(before) >= 2
    /\ Len(last.evicted) = len(before)
    /\ len(modules) = 1

\* ---------------------------------------------------------------- C18
\* C18 (state unchanged on error): when store returns an error on an
\* enabled cache nothing has changed: len(), size(), the live keys with
\* their modules and sizes, and the recency order are what they were
\* before the call.
C18_UnchangedOnError ==
    FailedStore =>
        /\ modules = before
        /\ Storage(modules) = Storage(before)
        /\ \A k \in Keys : load(modules, k) = load(before, k)

\* A store of a held key, not the most recently used one, was rejected.
C18_Witness ==
    /\ FailedStore
    /\ len(before) >= 2
    /\ last.key \in LiveKeys(before)
    /\ Storage(before)[1].key # last.key

\* ---------------------------------------------------------------- C19
\* C19 (the entry count is charged against the budget): on an enabled
\* cache with budget B, len() + size() <= B, so at most B entries are live
\* even when they are stored with declared size 0.
C19_EntryCountCharged ==
    Enabled => /\ len(modules) + size(modules) <= budget
               /\ len(modules) <= budget

\* The cache is full of entries of declared size 0 and a store has evicted
\* one of them to admit another.
C19_Witness ==
    /\ Enabled /\ StoredOk
    /\ last.size = 0 /\ size(modules) = 0
    /\ len(modules) = budget /\ len(modules) >= 2
    /\ last.evicted # <<>>

====
